---------------------------- MODULE Spec2Model ----------------------------
(***************************************************************************)
(* Model of the NeuralNetwork class of "Neural Network in C++":            *)
(* construction, forwardPropagation, backPropagation, train, predict and   *)
(* evaluateAccuracy.                                                       *)
(*                                                                         *)
(* Numbers.  A double is modelled by a binary fixed-point number: the      *)
(* integer x stands for x / 2^FracBits.  + and - are exact, * and / round  *)
(* to the nearest representable value, as the double operations do (with   *)
(* FracBits fraction bits for a double's 52).  std::exp is modelled by     *)
(* ExpM, the linear interpolation of 2^x between consecutive integers: it  *)
(* is positive, increasing and ExpM(0) = 1, which is what the network's    *)
(* code relies on, and it underflows to 0 as exp does.  A double division  *)
(* by 0.0 does not trap: 0.0/0.0 is the IEEE-754 value NaN.                *)
(*                                                                         *)
(* Vectors are functions on 0..n-1, as in the source.                      *)
(***************************************************************************)
EXTENDS Integers, Sequences, FiniteSets, TLC

\* ------------------------------------------------------------------ bounds
MaxEpochs == 2          \* largest epoch count passed to train
MaxSamples == 2         \* longest sample list passed to train / evaluateAccuracy

\* ---------------------------------------------------------------- numbers
FracBits == 10

RECURSIVE Pow2(_)
Pow2(k) == IF k = 0 THEN 1 ELSE 2 * Pow2(k - 1)

Scale == Pow2(FracBits)

\* a / b rounded to the nearest integer (b # 0)
RoundDiv(a, b) ==
    IF b > 0 THEN (2 * a + b) \div (2 * b) ELSE (-2 * a - b) \div (-2 * b)

\* the double k, and the double nearest to n/d
R(k) == k * Scale
Q(n, d) == RoundDiv(n * Scale, d)
Zero == R(0)
One == R(1)

Add(a, b) == a + b
Sub(a, b) == a - b
Mul(a, b) == RoundDiv(a * b, Scale)
Less(a, b) == a < b

\* a / b for b # 0
Div(a, b) == RoundDiv(a * Scale, b)

\* a / b as the double division gives it, also for b = 0
DoubleDiv(a, b) ==
    IF b # 0 THEN [class |-> "finite", val |-> Div(a, b)]
    ELSE IF a = 0 THEN [class |-> "NaN", val |-> 0]
    ELSE [class |-> "infinite", val |-> IF a > 0 THEN 1 ELSE -1]

\* std::exp: 2^floor(x) * (1 + (x - floor(x))), 0 once below the precision
ExpM(x) ==
    LET f == x \div Scale
        m == Scale + (x - f * Scale)
    IN  IF f >= 0 THEN m * Pow2(f)
        ELSE IF -f > FracBits + 1 THEN 0
        ELSE RoundDiv(m, Pow2(-f))

\* ---------------------------------------------------------------- vectors
Size(v) == Cardinality(DOMAIN v)
RatVec(s) == [i \in 0 .. Len(s) - 1 |-> R(s[i + 1])]

\* sum of f[0] + ... + f[n-1], accumulated in index order
RECURSIVE SumTo(_, _)
SumTo(f, n) == IF n = 0 THEN Zero ELSE Add(SumTo(f, n - 1), f[n - 1])

\* std::max_element with comparator a < b: index of the first largest element
RECURSIVE MaxScan(_, _, _)
MaxScan(v, largest, first) ==
    IF first >= Size(v) THEN largest
    ELSE MaxScan(v, IF Less(v[largest], v[first]) THEN first ELSE largest, first + 1)

\* (variant: the last largest element, as a comparator a <= b would give)
RECURSIVE MaxScanLast(_, _, _)
MaxScanLast(v, largest, first) ==
    IF first >= Size(v) THEN largest
    ELSE MaxScanLast(v, IF Less(v[first], v[largest]) THEN largest ELSE first,
                     first + 1)

MaxElementLast(v) == MaxScanLast(v, 0, 1)

MaxElement(v) == MaxScan(v, 0, 1)


\* ------------------------------------------------------- Neuron and Layer
\* Initial weights and biases: the source draws each from a uniform
\* distribution on [-1, 1]; the model draws one of a few fixed assignments
\* with values in that range.
WeightInits == {"zero", "half", "mixed"}

InitWeight(p, l, j, k) ==
    IF p = "zero" THEN Zero
    ELSE IF p = "half" THEN Q(1, 2)
    ELSE Q(((l + j + 2 * k) % 3) - 1, 1 + ((j + k) % 2))

InitBias(p, l, j) ==
    IF p = "zero" THEN Zero
    ELSE IF p = "half" THEN Q(1, 2)
    ELSE Q(((l + 2 * j) % 3) - 1, 2)

\* Layer::Layer(neuronCount, prevLayerNeuronCount); l is the layer's index in
\* NeuralNetwork::layers.  resize() value-initialises Neuron::value to 0.
Layer(p, l, neuronCount, prevLayerNeuronCount) ==
    [j \in 0 .. neuronCount - 1 |->
        [value |-> Zero,
         weights |-> [k \in 0 .. prevLayerNeuronCount - 1 |-> InitWeight(p, l, j, k)],
         bias |-> InitBias(p, l, j)]]

\* Layer::getOutputs
getOutputs(layer) == [j \in DOMAIN layer |-> layer[j].value]

\* NeuralNetwork::NeuralNetwork: one Layer per entry of layerSizes after the
\* first; sizes is a TLA+ sequence, sizes[i + 1] is layerSizes[i].
NewLayers(p, sizes) ==
    [i \in 0 .. Len(sizes) - 2 |-> Layer(p, i, sizes[i + 2], sizes[i + 1])]

\* ------------------------------------------------------------ activations
relu(x) == IF Less(Zero, x) THEN x ELSE Zero

reluDerivative(x) == IF Less(Zero, x) THEN One ELSE Zero

softmax(x) ==
    LET maxElement == x[MaxElement(x)]
        result == [i \in DOMAIN x |-> ExpM(Sub(x[i], maxElement))]
        expSum == SumTo(result, Size(x))
    IN  [i \in DOMAIN x |-> Div(result[i], expSum)]   \* expSum >= exp(0) = 1

\* ---------------------------------------------------- forwardPropagation
\* v[i] as operator[] of std::vector<double> gives it: the element when i is
\* in range; otherwise the read is out of bounds (undefined behaviour) and
\* yields whatever the heap bytes beyond the vector hold, here g.
Read(v, i, g) == IF i \in DOMAIN v THEN v[i] ELSE g

\* indices of 0..n-1 that lie outside v
OutOfRange(v, n) == (0 .. n - 1) \ DOMAIN v

\* (variant: the copy of the input also lands in the neuron's bias)
SetInputLayerIntoBias(ls, inputValues, g) ==
    [ls EXCEPT ![0] = [i \in DOMAIN ls[0] |->
        [ls[0][i] EXCEPT !.value = Read(inputValues, i, g),
                         !.bias = Read(inputValues, i, g)]]]

\* lines 87-89: copy the input into the values of layers[0]
SetInputLayer(ls, inputValues, g) ==
    [ls EXCEPT ![0] = [i \in DOMAIN ls[0] |->
        [ls[0][i] EXCEPT !.value = Read(inputValues, i, g)]]]

\* lines 93-103: the raw sum, then ReLU (hidden) or plus bias (output)
NeuronValue(ls, i, neuron) ==
    LET prev == ls[i - 1]
        sum == SumTo([j \in DOMAIN prev |-> Mul(prev[j].value, neuron.weights[j])],
                     Size(prev))
    IN  IF i # Size(ls) - 1 THEN relu(Add(sum, neuron.bias))
        ELSE Add(sum, neuron.bias)

\* one iteration of the loop of line 92 for layer i
ProcessLayer(ls, i) ==
    LET computed == [ls EXCEPT ![i] = [j \in DOMAIN ls[i] |->
                        [ls[i][j] EXCEPT !.value = NeuronValue(ls, i, ls[i][j])]]]
        outputs == softmax(getOutputs(computed[i]))
    IN  IF i = Size(ls) - 1
        THEN [computed EXCEPT ![i] = [j \in DOMAIN computed[i] |->
                 [computed[i][j] EXCEPT !.value = outputs[j]]]]
        ELSE computed

RECURSIVE ProcessFrom(_, _)
ProcessFrom(ls, i) ==
    IF i >= Size(ls) THEN ls ELSE ProcessFrom(ProcessLayer(ls, i), i + 1)

\* NeuralNetwork::forwardPropagation on a network with at least one layer
forwardPropagation(ls, inputValues, g) ==
    ProcessFrom(SetInputLayer(ls, inputValues, g), 1)

\* ------------------------------------------------------- backPropagation
\* lines 117-120
OutputDeltas(ls, targetValues, g) ==
    LET back == ls[Size(ls) - 1]
    IN  [i \in DOMAIN back |-> Sub(back[i].value, Read(targetValues, i, g))]

\* lines 125-132: the deltas of layer i from those of layer i + 1
HiddenDeltas(ls, i, od, hd) ==
    [j \in DOMAIN ls[i] |->
        LET next == ls[i + 1]
            sum == SumTo([k \in DOMAIN next |->
                            Mul(next[k].weights[j],
                                IF i = Size(ls) - 2 THEN od[k] ELSE hd[i + 1][k])],
                         Size(next))
        IN  Mul(sum, reluDerivative(ls[i][j].value))]

\* lines 137-144: the update of layer i
UpdateLayer(ls, i, od, hd, lr) ==
    [ls EXCEPT ![i] = [j \in DOMAIN ls[i] |->
        LET neuron == ls[i][j]
            delta == IF i = Size(ls) - 1 THEN od[j] ELSE hd[i][j]
        IN  [neuron EXCEPT
                !.weights = [k \in DOMAIN neuron.weights |->
                    Sub(neuron.weights[k],
                        Mul(Mul(lr, delta), ls[i - 1][k].value))],
                !.bias = Sub(neuron.bias, Mul(lr, delta))]]]

\* the hidden-delta loop of line 124 for n layers: i = n-2 down to 0
RECURSIVE HiddenSteps(_)
HiddenSteps(i) ==
    IF i < 0 THEN << >> ELSE << <<"hidden", i>> >> \o HiddenSteps(i - 1)

\* the update loop of line 136 for n layers: i = n-1 down to 1
RECURSIVE UpdateSteps(_)
UpdateSteps(i) ==
    IF i <= 0 THEN << >> ELSE << <<"update", i>> >> \o UpdateSteps(i - 1)

\* (variant: each layer is updated as soon as its own deltas are known, before
\* the deltas of the layer below are computed from its weights)
RECURSIVE InterleavedSteps(_)
InterleavedSteps(i) ==
    IF i <= 0 THEN << >>
    ELSE << <<"update", i>>, <<"hidden", i - 1>> >> \o InterleavedSteps(i - 1)

BackOrderInterleaved(n) == << <<"out", n - 1>> >> \o InterleavedSteps(n - 1)

\* the order of backPropagation's steps on n layers: the output deltas,
\* every hidden delta, then every update
BackOrder(n) == << <<"out", n - 1>> >> \o HiddenSteps(n - 2) \o UpdateSteps(n - 1)

\* ------------------------------------------------------ inputs of the model
\* constructor arguments the interface allows, and those it must reject
ValidLayerSizes == {<<2, 2>>, <<2, 2, 2>>, <<1, 2, 2>>, <<3, 2, 3>>, <<2, 2, 2, 2>>}
InvalidLayerSizes == {<< >>, <<2>>}
ValidRates == {Q(1, 4), Q(1, 2)}
InvalidRates == {Zero, Q(-1, 4)}

\* what an out-of-bounds read of a double may yield: the bytes beyond the
\* vector's buffer are not written during the run, and hold one of these
GarbageVals == {R(-1), Q(1, 2)}

\* the samples the loader hands over, (input, target) pairs; the last two have
\* lengths that fit none of the networks above
Dataset ==
    [k \in 0 .. 3 |->
        IF k = 0 THEN [input |-> RatVec(<<1, 0>>), target |-> RatVec(<<1, 0>>)]
        ELSE IF k = 1 THEN [input |-> RatVec(<<-1, 1>>), target |-> RatVec(<<0, 1>>)]
        ELSE IF k = 2 THEN [input |-> RatVec(<<1>>), target |-> RatVec(<<0, 1, 0>>)]
        ELSE [input |-> RatVec(<<0, 1, 1>>), target |-> RatVec(<<1>>)]]

\* n consecutive samples of the data set starting at s, as main's split takes
\* consecutive slices of the loaded data
SampleInputs(s, n) == [k \in 0 .. n - 1 |-> Dataset[(s + k) % Size(Dataset)].input]
SampleTargets(s, n) == [k \in 0 .. n - 1 |-> Dataset[(s + k) % Size(Dataset)].target]
Starts(n) == IF n = 0 THEN {0} ELSE DOMAIN Dataset

\* ------------------------------------------------------------------ state
\* The calls follow main: train on the constructed network, then
\* evaluateAccuracy, then predict any number of times; a later call may be made
\* without the earlier ones.  train and evaluateAccuracy advance one loop
\* iteration per step, backPropagation one loop per step (BackOrder), so that
\* the order of their reads and writes is part of the behaviour.
VARIABLES
    layerSizes,         \* constructor argument (kept to state the claims)
    learningRate,       \* NeuralNetwork::learningRate
    layers,             \* NeuralNetwork::layers
    beyond,             \* what the heap holds beyond the end of the data vectors
    stage,              \* how far main has come: 0 constructed, 1 train called,
                        \* 2 evaluateAccuracy called, 3 predict called
    pc,                 \* where the running call stands; "idle" between calls
    inputs, targets,    \* arguments of the running train / evaluateAccuracy
    epochs, epoch,      \* train's argument and loop counter
    sample,             \* the loop index i of train / evaluateAccuracy
    outputDeltas,       \* backPropagation's locals
    hiddenDeltas,
    bstep,              \* position in BackOrder of the running backPropagation
    correctPredictions, \* evaluateAccuracy's local
    predictedClass,     \* the argmax index last computed by predict / evaluateAccuracy
    returned,           \* value returned by the last predict / evaluateAccuracy
    thrown,             \* exception raised to the caller by the last call
    lastCall,           \* the call that last returned
    fwdInput,           \* history: argument of the last forwardPropagation
    fresh,              \* history: no weight written since the last forwardPropagation
    entry,              \* history: layers on entry to the last backPropagation
    log,                \* history: passes of the running/last train, in order
    oobRead,            \* history: the last forward/backward read outside its argument
    truncated           \* history: the last forward/backward ignored part of its argument

vars == <<layerSizes, learningRate, layers, beyond, stage, pc, inputs, targets,
          epochs, epoch, sample, outputDeltas, hiddenDeltas, bstep,
          correctPredictions, predictedClass, returned, thrown, lastCall, fwdInput,
          fresh, entry, log, oobRead, truncated>>

netVars == <<layerSizes, learningRate, beyond>>
argVars == <<inputs, targets, epochs>>
backVars == <<outputDeltas, hiddenDeltas, bstep, entry>>

NoVec == << >>
NoValue == [class |-> "none", val |-> 0]

InitWith(sizes, rates) ==
    /\ layerSizes \in sizes
    /\ learningRate \in rates
    /\ \E p \in WeightInits : layers = NewLayers(p, layerSizes)
    /\ beyond \in GarbageVals
    /\ stage = 0 /\ pc = "idle"
    /\ inputs = NoVec /\ targets = NoVec /\ epochs = 0 /\ epoch = 0 /\ sample = 0
    /\ outputDeltas = NoVec /\ hiddenDeltas = NoVec /\ bstep = 0 /\ entry = NoVec
    /\ correctPredictions = 0 /\ predictedClass = -1 /\ returned = NoValue
    /\ thrown = "none" /\ lastCall = "none"
    /\ fwdInput = NoVec /\ fresh = FALSE /\ log = << >>
    /\ oobRead = FALSE /\ truncated = FALSE

\* the interface's contract: at least two layer sizes, a positive rate
Init == InitWith(ValidLayerSizes, ValidRates)

\* the constructor as written accepts any arguments
InitAnyArgs ==
    InitWith(ValidLayerSizes \cup InvalidLayerSizes, ValidRates \cup InvalidRates)

\* -------------------------------------------------------------- one forward
\* forwardPropagation(inputValues) as a step: layers, and the history of it
Forward(inputValues) ==
    /\ layers' = forwardPropagation(layers, inputValues, beyond)
    /\ fwdInput' = inputValues
    /\ fresh' = TRUE
    /\ oobRead' = (OutOfRange(inputValues, Size(layers[0])) # {})
    /\ truncated' = (Size(inputValues) > Size(layers[0]))

\* ----------------------------------------------------------------- train
\* (variant: one epoch too many)
EpochPendingInclusive(e, es) == e <= es

\* the loop condition of line 151
EpochPending(e, es) == e < es

\* main calls train once, on the freshly constructed network
CallTrain(s, n, e) ==
    /\ pc = "idle" /\ stage = 0
    /\ inputs' = SampleInputs(s, n) /\ targets' = SampleTargets(s, n)
    /\ epochs' = e /\ epoch' = 0 /\ sample' = 0
    /\ pc' = "train" /\ stage' = 1
    /\ UNCHANGED <<netVars, layers, backVars, correctPredictions, predictedClass,
                   returned, thrown, lastCall, fwdInput, fresh, log, oobRead,
                   truncated>>

\* line 153
TrainForward ==
    /\ pc = "train" /\ EpochPending(epoch, epochs) /\ sample < Size(inputs)
    /\ Size(layers) > 0
    /\ Forward(inputs[sample])
    /\ entry' = layers'
    /\ outputDeltas' = NoVec /\ hiddenDeltas' = NoVec
    /\ bstep' = 1
    /\ pc' = "back"
    /\ log' = Append(log, <<"forward", sample>>)
    /\ UNCHANGED <<netVars, stage, argVars, epoch, sample, correctPredictions,
                   predictedClass, returned, thrown, lastCall>>

\* line 152 falls through, line 151 increments
TrainNextEpoch ==
    /\ pc = "train" /\ EpochPending(epoch, epochs) /\ sample >= Size(inputs)
    /\ epoch' = epoch + 1 /\ sample' = 0
    /\ UNCHANGED <<netVars, layers, stage, pc, argVars, backVars, correctPredictions,
                   predictedClass, returned, thrown, lastCall, fwdInput, fresh, log,
                   oobRead, truncated>>

\* line 151 falls through: train returns (void)
TrainReturn ==
    /\ pc = "train" /\ ~EpochPending(epoch, epochs)
    /\ pc' = "idle" /\ lastCall' = "train"
    /\ UNCHANGED <<netVars, layers, stage, argVars, epoch, sample, backVars,
                   correctPredictions, predictedClass, returned, thrown, fwdInput,
                   fresh, log, oobRead, truncated>>

\* ------------------------------------------------- backPropagation (line 154)
BackSteps == BackOrder(Size(layers))
BackStep == BackSteps[bstep]

BackOutputDeltas ==
    /\ pc = "back" /\ bstep <= Len(BackSteps) /\ BackStep[1] = "out"
    /\ outputDeltas' = OutputDeltas(layers, targets[sample], beyond)
    /\ hiddenDeltas' = [i \in 0 .. Size(layers) - 2 |-> NoVec]
    /\ oobRead' = (OutOfRange(targets[sample], Size(layers[Size(layers) - 1])) # {})
    /\ truncated' = (Size(targets[sample]) > Size(layers[Size(layers) - 1]))
    /\ bstep' = bstep + 1
    /\ UNCHANGED <<netVars, layers, stage, pc, argVars, epoch, sample, entry,
                   correctPredictions, predictedClass, returned, thrown, lastCall,
                   fwdInput, fresh, log>>

BackHiddenDeltas ==
    /\ pc = "back" /\ bstep <= Len(BackSteps) /\ BackStep[1] = "hidden"
    /\ hiddenDeltas' = [hiddenDeltas EXCEPT ![BackStep[2]] =
                            HiddenDeltas(layers, BackStep[2], outputDeltas, hiddenDeltas)]
    /\ bstep' = bstep + 1
    /\ UNCHANGED <<netVars, layers, stage, pc, argVars, epoch, sample, outputDeltas,
                   entry, correctPredictions, predictedClass, returned, thrown,
                   lastCall, fwdInput, fresh, log, oobRead, truncated>>

BackUpdate ==
    /\ pc = "back" /\ bstep <= Len(BackSteps) /\ BackStep[1] = "update"
    /\ layers' = UpdateLayer(layers, BackStep[2], outputDeltas, hiddenDeltas,
                             learningRate)
    /\ fresh' = FALSE
    /\ bstep' = bstep + 1
    /\ UNCHANGED <<netVars, stage, pc, argVars, epoch, sample, outputDeltas,
                   hiddenDeltas, entry, correctPredictions, predictedClass, returned,
                   thrown, lastCall, fwdInput, log, oobRead, truncated>>

\* backPropagation returns to train's loop; line 152 increments i
BackReturn ==
    /\ pc = "back" /\ bstep > Len(BackSteps)
    /\ pc' = "train" /\ sample' = sample + 1
    /\ log' = Append(log, <<"backward", sample>>)
    /\ UNCHANGED <<netVars, layers, stage, argVars, epoch, backVars,
                   correctPredictions, predictedClass, returned, thrown, lastCall,
                   fwdInput, fresh, oobRead, truncated>>

\* what a call other than train leaves of train's and backPropagation's data
ForgetTraining ==
    /\ epochs' = 0 /\ epoch' = 0 /\ log' = << >>
    /\ outputDeltas' = NoVec /\ hiddenDeltas' = NoVec /\ bstep' = 0 /\ entry' = NoVec

\* ---------------------------------------------------------------- predict
\* lines 160-166
Predict(input) ==
    /\ pc = "idle"
    /\ Size(layers) > 0
    /\ Forward(input)
    /\ predictedClass' = MaxElement(getOutputs(layers'[Size(layers) - 1]))
    /\ returned' = [class |-> "int", val |-> predictedClass']
    /\ lastCall' = "predict" /\ stage' = 3
    /\ inputs' = NoVec /\ targets' = NoVec /\ sample' = 0 /\ correctPredictions' = 0
    /\ ForgetTraining
    /\ UNCHANGED <<netVars, pc, thrown>>

\* ------------------------------------------------------- evaluateAccuracy
\* main calls evaluateAccuracy after train and before the predictions
CallEvaluate(s, n) ==
    /\ pc = "idle" /\ stage <= 1
    /\ inputs' = SampleInputs(s, n) /\ targets' = SampleTargets(s, n)
    /\ correctPredictions' = 0 /\ sample' = 0
    /\ pc' = "eval" /\ stage' = 2
    /\ ForgetTraining
    /\ UNCHANGED <<netVars, layers, predictedClass, returned, thrown, lastCall,
                   fwdInput, fresh, oobRead, truncated>>

\* lines 172-179
EvalSample ==
    /\ pc = "eval" /\ sample < Size(inputs)
    /\ Size(layers) > 0
    /\ Forward(inputs[sample])
    /\ predictedClass' = MaxElement(getOutputs(layers'[Size(layers) - 1]))
    /\ LET actualClass == MaxElement(targets[sample])
       IN  correctPredictions' = IF predictedClass' = actualClass
                                 THEN correctPredictions + 1
                                 ELSE correctPredictions
    /\ sample' = sample + 1
    /\ UNCHANGED <<netVars, stage, pc, argVars, epoch, backVars, returned, thrown,
                   lastCall, log>>

\* line 181
EvalReturn ==
    /\ pc = "eval" /\ sample >= Size(inputs)
    /\ returned' = DoubleDiv(R(correctPredictions), R(Size(inputs)))
    /\ pc' = "idle" /\ lastCall' = "evaluateAccuracy"
    /\ UNCHANGED <<netVars, layers, stage, argVars, epoch, sample, backVars,
                   correctPredictions, predictedClass, thrown, fwdInput, fresh, log,
                   oobRead, truncated>>

\* ------------------------------------------------- a network with no layer
\* layers[0] and layers.back() on the empty vector dereference a null (or
\* one-before-null) pointer: the access kills the process.
NullLayerAccess ==
    /\ Size(layers) = 0
    /\ \/ pc = "train" /\ EpochPending(epoch, epochs) /\ sample < Size(inputs)
       \/ pc = "eval" /\ sample < Size(inputs)
       \/ pc = "idle"
    /\ pc' = "crashed"
    /\ UNCHANGED <<netVars, layers, stage, argVars, epoch, sample, backVars,
                   correctPredictions, predictedClass, returned, thrown, lastCall,
                   fwdInput, fresh, log, oobRead, truncated>>

\* ------------------------------------------------------------ specification
Next ==
    \/ \E n \in 0 .. MaxSamples : \E s \in Starts(n) : \E e \in -1 .. MaxEpochs :
           CallTrain(s, n, e)
    \/ TrainForward
    \/ TrainNextEpoch
    \/ TrainReturn
    \/ BackOutputDeltas
    \/ BackHiddenDeltas
    \/ BackUpdate
    \/ BackReturn
    \/ \E k \in DOMAIN Dataset : Predict(Dataset[k].input)
    \/ \E n \in 0 .. MaxSamples : \E s \in Starts(n) : CallEvaluate(s, n)
    \/ EvalSample
    \/ EvalReturn

Spec == Init /\ [][Next]_vars

NextAnyArgs == Next \/ NullLayerAccess

SpecAnyArgs == InitAnyArgs /\ [][NextAnyArgs]_vars

\* ---------------------------------------------------------------- properties
OutputWidth == Size(layers[Size(layers) - 1])
Output == getOutputs(layers[Size(layers) - 1])

WeightsOf(ls) ==
    [i \in DOMAIN ls |-> [j \in DOMAIN ls[i] |->
        [weights |-> ls[i][j].weights, bias |-> ls[i][j].bias]]]

ValuesOf(ls) == [i \in DOMAIN ls |-> getOutputs(ls[i])]

\* the state a forwardPropagation has just left
JustForwarded ==
    \/ pc = "back" /\ bstep = 1
    \/ pc = "eval" /\ sample > 0
    \/ pc = "idle" /\ lastCall = "predict"

\* backPropagation has run all its steps and is about to return
BackDone == pc = "back" /\ bstep > Len(BackSteps)

\* train, respectively evaluateAccuracy, has just returned
TrainReturned == pc = "idle" /\ lastCall = "train"
EvalReturned == pc = "idle" /\ lastCall = "evaluateAccuracy" /\ stage = 2

InputFits == Size(fwdInput) = layerSizes[1]

\* bias_j + sum over k of x[k] * weight_j[k]
RawOfInput(neuron, x) ==
    Add(SumTo([k \in DOMAIN x |-> Mul(x[k], neuron.weights[k])], Size(x)),
        neuron.bias)

\* C1: after forwardPropagation(x) with x of length n0, every neuron j of the
\* first constructed layer holds ReLU(bias_j + sum_k x[k]*weight_j[k]) when the
\* network has more than one layer, and the softmax of those sums when it has
\* exactly one; the input is a virtual layer 0 stored in no Layer.
C1_FirstLayerComputedFromInput ==
    (JustForwarded /\ InputFits) =>
        LET raw == [j \in DOMAIN layers[0] |-> RawOfInput(layers[0][j], fwdInput)]
        IN  \A j \in DOMAIN layers[0] :
                layers[0][j].value =
                    IF Size(layers) > 1 THEN relu(raw[j]) ELSE softmax(raw)[j]

\* the delta of neuron j of layer l, and the activation feeding its weight k,
\* with the input as the activations of layer 0's predecessor
DeltaOf(l, j) == IF l = Size(layers) - 1 THEN outputDeltas[j] ELSE hiddenDeltas[l][j]
FeedOf(l, k) == IF l = 0 THEN fwdInput[k] ELSE entry[l - 1][k].value

\* C2: one backPropagation after the matching forwardPropagation updates every
\* constructed layer, the first included: each weight decreases by
\* learningRate*delta*activation of the layer before, each bias by
\* learningRate*delta.
C2_EveryLayerUpdated ==
    (BackDone /\ InputFits /\ Size(targets[sample]) = OutputWidth) =>
        \A l \in DOMAIN layers : \A j \in DOMAIN layers[l] :
            /\ layers[l][j].bias =
                   Sub(entry[l][j].bias, Mul(learningRate, DeltaOf(l, j)))
            /\ \A k \in DOMAIN layers[l][j].weights :
                   layers[l][j].weights[k] =
                       Sub(entry[l][j].weights[k],
                           Mul(Mul(learningRate, DeltaOf(l, j)), FeedOf(l, k)))

AllZero(ls) ==
    \A i \in DOMAIN ls : \A j \in DOMAIN ls[i] :
        /\ ls[i][j].bias = Zero
        /\ \A k \in DOMAIN ls[i][j].weights : ls[i][j].weights[k] = Zero

\* C3: with all weights and biases zero, forwardPropagation leaves every output
\* neuron at 1/outputWidth, for every valid layerSizes (two entries included)
\* and every input of matching length.
C3_ZeroNetworkUniform ==
    (JustForwarded /\ fresh /\ InputFits /\ AllZero(layers)) =>
        \A j \in DOMAIN Output : Output[j] = Q(1, OutputWidth)

\* C4: evaluateAccuracy on zero samples returns 0.0 (or raises an explicit
\* empty-input failure) without dividing by zero; on N > 0 samples it returns
\* (number of correct predictions) / N, within [0, 1].
C4_AccuracyOfSamples ==
    EvalReturned =>
        IF Size(inputs) = 0
        THEN thrown = "EmptyDataset" \/ returned = [class |-> "finite", val |-> Zero]
        ELSE /\ returned = [class |-> "finite",
                           val |-> Div(R(correctPredictions), R(Size(inputs)))]
             /\ Zero <= returned.val /\ returned.val <= One

\* C5: a forwardPropagation whose input length differs from the first layer
\* size, and a backPropagation whose target length differs from the output
\* width, end in a DimensionMismatch failure: nothing is read outside the
\* vector, nothing is silently dropped, no weight or bias changes.
C5_DimensionMismatchSignalled ==
    /\ (JustForwarded /\ ~InputFits) =>
           thrown = "DimensionMismatch" /\ ~oobRead /\ ~truncated
    /\ (pc = "back" /\ bstep > 1 /\ Size(targets[sample]) # OutputWidth) =>
           /\ thrown = "DimensionMismatch"
           /\ WeightsOf(layers) = WeightsOf(entry)
           /\ (bstep = 2 => ~oobRead /\ ~truncated)

\* C6: fewer than 2 layer sizes or a non-positive learning rate at
\* construction, and a non-positive epoch count or zero samples at train, each
\* end in an explicit failure; none yields a usable network or a silent return.
C6_InvalidArgumentsRejected ==
    /\ (Len(layerSizes) < 2 \/ learningRate <= Zero) =>
           thrown = "InvalidConfiguration"
    /\ (TrainReturned /\ epochs <= 0) => thrown = "InvalidConfiguration"
    /\ (TrainReturned /\ Size(inputs) = 0) => thrown = "EmptyDataset"

\* the state right after predict, or after evaluateAccuracy's forward pass on a
\* sample, where predictedClass is the class decided for the current output
JustPredicted ==
    \/ pc = "idle" /\ lastCall = "predict"
    \/ pc = "eval" /\ sample > 0

\* C7: predict returns an index of the output layer whose activation is >=
\* every other and > every activation at a smaller index (the first maximum);
\* evaluateAccuracy decides its predicted class by the same rule.
C7_PredictFirstMaximum ==
    JustPredicted =>
        /\ predictedClass \in 0 .. OutputWidth - 1
        /\ \A i \in DOMAIN Output : Output[predictedClass] >= Output[i]
        /\ \A i \in 0 .. predictedClass - 1 : Output[predictedClass] > Output[i]
        /\ (pc = "idle" => returned = [class |-> "int", val |-> predictedClass])

\* predict has answered with the first of several equal maxima
C7_Witness ==
    /\ pc = "idle" /\ lastCall = "predict"
    /\ \E i \in DOMAIN Output : i > predictedClass /\ Output[i] = Output[predictedClass]

\* forward(0), backward(0), ..., forward(n-1), backward(n-1)
RECURSIVE EpochLog(_)
EpochLog(n) ==
    IF n = 0 THEN << >>
    ELSE EpochLog(n - 1) \o << <<"forward", n - 1>>, <<"backward", n - 1>> >>

RECURSIVE ExpectedLog(_, _)
ExpectedLog(es, n) == IF es <= 0 THEN << >> ELSE ExpectedLog(es - 1, n) \o EpochLog(n)

IsPrefix(s, t) == Len(s) <= Len(t) /\ SubSeq(t, 1, Len(s)) = s

TrainOrder ==
    /\ (pc \in {"train", "back"} \/ TrainReturned) =>
           IsPrefix(log, ExpectedLog(epochs, Size(inputs)))
    /\ TrainReturned => log = ExpectedLog(epochs, Size(inputs))
    /\ pc = "train" =>
           Len(log) = 2 * (epoch * Size(inputs) + sample)
    /\ pc = "back" =>
           /\ fwdInput = inputs[sample]
           /\ log[Len(log)] = <<"forward", sample>>
           /\ ValuesOf(layers) = ValuesOf(entry)

\* the steps train still has to take: per sample one forward, backPropagation's
\* steps and its return; per epoch one loop exit; and train's return
StepsPerSample == Len(BackSteps) + 2

StepsFrom(e, i) ==
    IF ~(e < epochs) THEN 1
    ELSE (epochs - e - 1) * (Size(inputs) * StepsPerSample + 1)
         + (Size(inputs) - i) * StepsPerSample + 2

TrainRemaining ==
    IF pc = "train" THEN StepsFrom(epoch, sample)
    ELSE IF pc = "back" THEN (Len(BackSteps) + 2 - bstep) + StepsFrom(epoch, sample + 1)
    ELSE 0

\* the running train has a step to take
TrainCanStep ==
    /\ pc = "train" => (sample <= Size(inputs) /\ Size(layers) > 0)
    /\ pc = "back" =>
           /\ bstep \in 1 .. Len(BackSteps) + 1
           /\ sample < Size(inputs)
           /\ bstep <= Len(BackSteps) => BackStep[1] \in {"out", "hidden", "update"}

\* C8: train with N samples makes exactly epochs*N forward and epochs*N
\* backward passes, alternating forward(inputs[i]), backward(targets[i]) for
\* i = 0..N-1 in order within each epoch, epoch after epoch; each backward pass
\* directly follows the forward pass on the same index; and train terminates:
\* it is never stuck and every step brings its return one step nearer.
C8_TrainOrderAndTermination ==
    /\ []TrainOrder
    /\ []TrainCanStep
    /\ [][(pc \in {"train", "back"}) =>
            /\ TrainRemaining > 0
            /\ TrainRemaining' = TrainRemaining - 1
            /\ (TrainRemaining' = 0 <=> TrainReturned')]_vars

\* train has returned after two epochs over two samples
C8_Witness ==
    /\ TrainReturned /\ epochs = 2 /\ Size(inputs) = 2 /\ Len(log) = 8

\* C9: forwardPropagation, predict and evaluateAccuracy write neuron values
\* only; weights and biases change only in backPropagation's update, which runs
\* only inside train; the learning rate never changes.
C9_InferenceReadOnly ==
    [][/\ learningRate' = learningRate
       /\ (pc \in {"idle", "train", "eval"}) => WeightsOf(layers') = WeightsOf(layers)
       /\ (WeightsOf(layers') # WeightsOf(layers)) =>
              /\ pc = "back" /\ pc' = "back" /\ stage = 1
              /\ BackStep[1] = "update"
              /\ ValuesOf(layers') = ValuesOf(layers)]_vars

Untrained == \E p \in WeightInits : WeightsOf(layers) = WeightsOf(NewLayers(p, layerSizes))

\* predict has run its forward pass on a network that training has changed
C9_Witness ==
    /\ pc = "idle" /\ lastCall = "predict" /\ ~Untrained
    /\ \E j \in DOMAIN Output : Output[j] # Zero

\* the updates of line 136 applied in the opposite order, i = from .. n-1
RECURSIVE UpdateAscending(_, _, _, _, _)
UpdateAscending(ls, from, od, hd, lr) ==
    IF from >= Size(ls) THEN ls
    ELSE UpdateAscending(UpdateLayer(ls, from, od, hd, lr), from + 1, od, hd, lr)

\* C10: within one backPropagation every delta is computed before the first
\* weight or bias is written: every weight read for a delta has its value from
\* the start of the call, every activation read by the update is the one the
\* forward pass cached, and the result is that of any order of the updates.
C10_DeltasBeforeUpdates ==
    (pc = "back" /\ bstep > 1) =>
        /\ outputDeltas = OutputDeltas(entry, targets[sample], beyond)
        /\ (WeightsOf(layers) # WeightsOf(entry)) =>
               \A i \in DOMAIN hiddenDeltas : hiddenDeltas[i] # NoVec
        /\ \A i \in DOMAIN hiddenDeltas :
               hiddenDeltas[i] # NoVec =>
                   hiddenDeltas[i] = HiddenDeltas(entry, i, outputDeltas, hiddenDeltas)
        /\ ValuesOf(layers) = ValuesOf(entry)
        /\ BackDone =>
               layers = UpdateAscending(entry, 1, outputDeltas, hiddenDeltas,
                                        learningRate)

\* a backPropagation on three layers has changed the hidden layer's weights
\* with deltas that are not all zero
C10_Witness ==
    /\ BackDone /\ Size(layers) = 3
    /\ WeightsOf(layers)[1] # WeightsOf(entry)[1]
    /\ WeightsOf(layers)[2] # WeightsOf(entry)[2]

=============================================================================
